---- MODULE Spec2Model ----
(***************************************************************************)
(* Model of streamlit_app.py: one Streamlit script that, on a button       *)
(* click, checks the pasted email, fans sixteen prompt completions out on  *)
(* a thread pool through a time-expiring memoization cache, joins them,    *)
(* displays the sections in a fixed order and offers a JSON export.        *)
(*                                                                         *)
(* Strings.  A document is a run-length encoded character string: a        *)
(* sequence of runs [c |-> character, n |-> count] with n > 0 and no two   *)
(* adjacent runs of the same character, so that two documents are equal    *)
(* exactly when their encodings are.  Completion texts are short and are   *)
(* plain sequences of characters.                                          *)
(***************************************************************************)
EXTENDS Integers, Sequences, FiniteSets, TLC

VARIABLES
    features,       \* the feature-flag dict of lines 19-38
    cache,          \* st.cache_data store of get_ai_response: key -> [value, stamp]
    now,            \* wall clock, in seconds
    runs,           \* number of button clicks so far
    email_content,  \* the text area's content in the current script run
    pc,             \* position of the script (main thread)
    idx,            \* position inside the submit / extract / display sequences
    detected_lang,  \* result of detect(email_content) in this run
    fut,            \* the futures of this run: kind -> [st, val, src, raw]
    res,            \* the locals summary, response, ... once extracted
    metrics,        \* local metrics computed in this run
    screen,         \* what the run has written to the page, in order
    export_data,    \* the JSON export mapping, once built
    sent,           \* prompts handed to generate_content in this run
    aiErrors,       \* kinds for which st.error("AI Error: ...") was called
    finished,       \* kinds in the order their futures completed
    raised,         \* which call raised into the outer except, if any
    start,          \* clock value at which this run started
    prev,           \* the last run that extracted all its results
    failedKeys      \* cache keys whose current entry was written by a failed call

vars == <<features, cache, now, runs, email_content, pc, idx, detected_lang,
          fut, res, metrics, screen, export_data, sent, aiErrors, finished,
          raised, start, prev, failedKeys>>

----------------------------------------------------------------------------
(* Bounds of the model *)

NumKinds == 2
MaxRuns == 2
MaxTicks == 2

(* Program constants *)

MAX_EMAIL_LENGTH == 2000
TTL == 3600

(* The clock is observed every half freshness window *)
TickStep == TTL \div 2

----------------------------------------------------------------------------
(* Insight kinds, in the order the futures are submitted and extracted *)

KindOrder ==
    <<"summary", "response", "highlights", "tone", "urgency", "tasks",
      "subject", "category", "politeness", "emotion", "spam", "root_cause",
      "grammar", "clarity", "best_time", "professionalism">>

Kinds == {KindOrder[i] : i \in 1..NumKinds}

Template(k) ==
    CASE k = "summary"         -> "Summarize this email concisely:\n\n"
      [] k = "response"        -> "Draft a professional response:\n\n"
      [] k = "highlights"      -> "Highlight key points:\n\n"
      [] k = "tone"            -> "Detect the tone of this email:\n\n"
      [] k = "urgency"         -> "Analyze urgency level:\n\n"
      [] k = "tasks"           -> "List actionable tasks:\n\n"
      [] k = "subject"         -> "Suggest a professional subject line:\n\n"
      [] k = "category"        -> "Categorize this email:\n\n"
      [] k = "politeness"      -> "Evaluate politeness score:\n\n"
      [] k = "emotion"         -> "Analyze emotions in this email:\n\n"
      [] k = "spam"            -> "Detect if this email is spam/scam:\n\n"
      [] k = "root_cause"      -> "Analyze the root cause of the email tone and sentiment:\n\n"
      [] k = "grammar"         -> "Check spelling & grammar mistakes and suggest fixes:\n\n"
      [] k = "clarity"         -> "Rate the clarity of this email:\n\n"
      [] k = "best_time"       -> "Suggest the best time to respond to this email:\n\n"
      [] k = "professionalism" -> "Rate the professionalism of this email on a scale of 1-10:\n\n"

(* The flag of the features dict that names each kind; the summary has none *)
FeatureOf(k) ==
    CASE k = "tasks"     -> "task_extraction"
      [] k = "subject"   -> "subject_recommendation"
      [] k = "spam"      -> "spam_check"
      [] k = "grammar"   -> "grammar_check"
      [] OTHER           -> k

MandatoryKinds == {"summary"}

FlagNames == {FeatureOf(k) : k \in Kinds \ MandatoryKinds}

DefaultFeatures == [f \in FlagNames |-> TRUE]

EnabledKinds(fs) == {k \in Kinds \ MandatoryKinds : fs[FeatureOf(k)]}

(* Sections in the order the script writes them *)
DisplayOrder ==
    <<"summary", "response", "highlights", "sentiment", "tone", "urgency",
      "tasks", "category", "readability", "root_cause", "grammar", "clarity",
      "best_time", "professionalism">>

InModel(s) == s \in Kinds \cup {"sentiment", "readability"}

Sections == SelectSeq(DisplayOrder, InModel)

ExportKeys ==
    {"summary", "response", "highlights", "root_cause", "grammar", "clarity",
     "best_time", "professionalism"}

----------------------------------------------------------------------------
(* Run-length encoded strings *)

RECURSIVE StrLen(_)
StrLen(s) == IF s = <<>> THEN 0 ELSE Head(s).n + StrLen(Tail(s))

(* Python's s[:n] for n >= 0 *)
RECURSIVE Slice(_, _)
Slice(s, n) ==
    IF n <= 0 \/ s = <<>> THEN <<>>
    ELSE IF Head(s).n <= n
         THEN <<Head(s)>> \o Slice(Tail(s), n - Head(s).n)
         ELSE <<[c |-> Head(s).c, n |-> n]>>

(* Python's s[n:] for n >= 0 *)
RECURSIVE Drop(_, _)
Drop(s, n) ==
    IF s = <<>> THEN <<>>
    ELSE IF n <= 0 THEN s
    ELSE IF Head(s).n <= n THEN Drop(Tail(s), n - Head(s).n)
    ELSE <<[c |-> Head(s).c, n |-> Head(s).n - n]>> \o Tail(s)

(* Concatenation, keeping the encoding canonical *)
Concat(a, b) ==
    IF a = <<>> THEN b
    ELSE IF b = <<>> THEN a
    ELSE IF a[Len(a)].c = b[1].c
         THEN SubSeq(a, 1, Len(a) - 1)
              \o <<[c |-> b[1].c, n |-> a[Len(a)].n + b[1].n]>>
              \o Tail(b)
         ELSE a \o b

Rep(ch, count) == <<[c |-> ch, n |-> count]>>

Empty == <<>>
ExactDoc == Rep("a", MAX_EMAIL_LENGTH)
LongA == Rep("a", MAX_EMAIL_LENGTH) \o Rep("b", 1)
LongB == Rep("a", MAX_EMAIL_LENGTH) \o Rep("c", 1)

Docs == {Empty, ExactDoc, LongA, LongB}

(* Python truthiness of a string *)
TruthyAlways(s) == TRUE
Truthy(s) == s # <<>>

----------------------------------------------------------------------------
(* Completion texts *)

RawTexts == {<<" ", "x", " ">>, <<"y">>}

RECURSIVE LStrip(_)
LStrip(t) == IF t # <<>> /\ Head(t) = " " THEN LStrip(Tail(t)) ELSE t

RECURSIVE RStrip(_)
RStrip(t) ==
    IF t # <<>> /\ t[Len(t)] = " " THEN RStrip(SubSeq(t, 1, Len(t) - 1)) ELSE t

Strip(t) == RStrip(LStrip(t))

(* The value get_ai_response returns from its except branch *)
FailureValueText == <<"A", "I">>
FailureValue == <<>>

----------------------------------------------------------------------------
(* get_ai_response and its cache *)

(* st.cache_data keys an entry on the arguments of the call *)
CacheKeyTruncated(prompt, content) == <<prompt, Slice(content, MAX_EMAIL_LENGTH)>>
CacheKeyContentOnly(prompt, content) == <<"", content>>
CacheKey(prompt, content) == <<prompt, content>>

Fresh(c, key, t) == key \in DOMAIN c /\ t - c[key].stamp < TTL

Store(c, key, v, t) ==
    [x \in DOMAIN c \cup {key} |->
        IF x = key THEN [value |-> v, stamp |-> t] ELSE c[x]]

(* The cache after a call that ended in the except branch has returned *)
CacheAfterFailureDropped(c, key, t) == c
CacheAfterFailure(c, key, t) == Store(c, key, FailureValue, t)

(* The prompt handed to generate_content *)
PromptUntruncated(template, content) == [template |-> template, body |-> content]
Prompt(template, content) ==
    [template |-> template, body |-> Slice(content, MAX_EMAIL_LENGTH)]

LangSupportedAny(lang) == TRUE
LangSupported(lang) == lang = "en"

DoneAlways(f) == TRUE
Done(f) == f.st = "done"

Langs == {"en", "fr"}

NoFuture == [st |-> "none", val |-> <<>>, src |-> "-", raw |-> <<>>]

RestStates == {"info", "unsupported", "error", "done"}

Dispatched == {k \in Kinds : fut[k].st # "none"}

----------------------------------------------------------------------------
InitCommon ==
    /\ cache = <<>>
    /\ now = 0
    /\ runs = 0
    /\ email_content = Empty
    /\ pc = "info"
    /\ idx = 0
    /\ detected_lang = "-"
    /\ fut = [k \in Kinds |-> NoFuture]
    /\ res = <<>>
    /\ metrics = {}
    /\ screen = <<[sec |-> "info", body |-> <<>>]>>
    /\ export_data = <<>>
    /\ sent = {}
    /\ aiErrors = {}
    /\ finished = <<>>
    /\ raised = "none"
    /\ start = 0
    /\ prev = [doc |-> Empty, start |-> 0, res |-> <<>>]
    /\ failedKeys = {}

(* The page as first loaded: empty text area, the features dict as written *)
Init == features = DefaultFeatures /\ InitCommon

(* The same page with the features dict edited to any assignment *)
InitFlags == features \in [FlagNames -> BOOLEAN] /\ InitCommon

----------------------------------------------------------------------------
(* The clock advances *)
Tick ==
    /\ now + TickStep <= MaxTicks * TickStep
    /\ now' = now + TickStep
    /\ UNCHANGED <<features, cache, runs, email_content, pc, idx, detected_lang,
                   fut, res, metrics, screen, export_data, sent, aiErrors,
                   finished, raised, start, prev, failedKeys>>

(* A script rerun: the text area holds doc; line 70 decides whether to process *)
Click ==
    /\ pc \in RestStates
    /\ runs < MaxRuns
    /\ \E doc \in Docs :
        /\ email_content' = doc
        /\ IF Truthy(doc)
           THEN /\ pc' = "detect"
                /\ screen' = <<>>
           ELSE /\ pc' = "info"
                /\ screen' = <<[sec |-> "info", body |-> <<>>]>>
    /\ runs' = runs + 1
    /\ prev' = IF DOMAIN res = Kinds
               THEN [doc |-> email_content, start |-> start, res |-> res]
               ELSE prev
    /\ start' = now
    /\ idx' = 0
    /\ detected_lang' = "-"
    /\ fut' = [k \in Kinds |-> NoFuture]
    /\ res' = <<>>
    /\ metrics' = {}
    /\ export_data' = <<>>
    /\ sent' = {}
    /\ aiErrors' = {}
    /\ finished' = <<>>
    /\ raised' = "none"
    /\ UNCHANGED <<features, cache, now, failedKeys>>

(* Lines 72-75: language detection and the English-only check *)
Detect ==
    /\ pc = "detect"
    /\ \/ \E lang \in Langs :
            /\ detected_lang' = lang
            /\ IF LangSupported(lang)
               THEN /\ pc' = "submit"
                    /\ idx' = 1
                    /\ screen' = screen
               ELSE /\ pc' = "unsupported"
                    /\ idx' = idx
                    /\ screen' = Append(screen, [sec |-> "unsupported", body |-> <<>>])
            /\ raised' = raised
       \/ /\ detected_lang' = "-"
          /\ raised' = "detect"
          /\ pc' = "error"
          /\ idx' = idx
          /\ screen' = Append(screen, [sec |-> "error", body |-> <<>>])
    /\ UNCHANGED <<features, cache, now, runs, email_content, fut, res, metrics,
                   export_data, sent, aiErrors, finished, start, prev, failedKeys>>

(* Lines 79-94: executor.submit, one future per kind, in order *)
Submit ==
    /\ pc = "submit"
    /\ fut' = [fut EXCEPT ![KindOrder[idx]].st = "queued"]
    /\ IF idx < NumKinds
       THEN idx' = idx + 1 /\ pc' = pc
       ELSE idx' = 1 /\ pc' = "extract"
    /\ UNCHANGED <<features, cache, now, runs, email_content, detected_lang, res,
                   metrics, screen, export_data, sent, aiErrors, finished, raised,
                   start, prev, failedKeys>>

(* A worker enters the cached get_ai_response: a fresh entry is returned, *)
(* otherwise the body runs and calls generate_content (lines 45-49)       *)
Lookup(k) ==
    /\ fut[k].st = "queued"
    /\ LET key == CacheKey(Template(k), email_content) IN
       IF Fresh(cache, key, now)
       THEN /\ fut' = [fut EXCEPT ![k] = [st |-> "done", val |-> cache[key].value,
                                          src |-> "hit", raw |-> <<>>]]
            /\ finished' = Append(finished, k)
            /\ sent' = sent
       ELSE /\ fut' = [fut EXCEPT ![k].st = "running"]
            /\ finished' = finished
            /\ sent' = sent \cup {Prompt(Template(k), email_content)}
    /\ UNCHANGED <<features, cache, now, runs, email_content, pc, idx,
                   detected_lang, res, metrics, screen, export_data, aiErrors,
                   raised, start, prev, failedKeys>>

(* generate_content returns; the stripped text is returned and cached (line 50) *)
Respond(k) ==
    /\ fut[k].st = "running"
    /\ \E raw \in RawTexts :
        LET key == CacheKey(Template(k), email_content) IN
        /\ fut' = [fut EXCEPT ![k] = [st |-> "done", val |-> Strip(raw),
                                      src |-> "ok", raw |-> raw]]
        /\ cache' = Store(cache, key, Strip(raw), now)
        /\ failedKeys' = failedKeys \ {key}
    /\ finished' = Append(finished, k)
    /\ UNCHANGED <<features, now, runs, email_content, pc, idx, detected_lang,
                   res, metrics, screen, export_data, sent, aiErrors, raised,
                   start, prev>>

(* generate_content raises; lines 51-53 report it and return the empty string *)
Fail(k) ==
    /\ fut[k].st = "running"
    /\ LET key == CacheKey(Template(k), email_content) IN
        /\ fut' = [fut EXCEPT ![k] = [st |-> "done", val |-> FailureValue,
                                      src |-> "fail", raw |-> <<>>]]
        /\ cache' = CacheAfterFailure(cache, key, now)
        /\ failedKeys' = failedKeys \cup {key}
    /\ aiErrors' = aiErrors \cup {k}
    /\ finished' = Append(finished, k)
    /\ UNCHANGED <<features, now, runs, email_content, pc, idx, detected_lang,
                   res, metrics, screen, export_data, sent, raised, start, prev>>

(* Lines 97-112: future.result(), in order; blocks until that future is done *)
Extract ==
    /\ pc = "extract"
    /\ Done(fut[KindOrder[idx]])
    /\ res' = [k \in DOMAIN res \cup {KindOrder[idx]} |->
                 IF k = KindOrder[idx] THEN fut[k].val ELSE res[k]]
    /\ IF idx < NumKinds
       THEN idx' = idx + 1 /\ pc' = pc
       ELSE idx' = idx /\ pc' = "readability"
    /\ UNCHANGED <<features, cache, now, runs, email_content, detected_lang, fut,
                   metrics, screen, export_data, sent, aiErrors, finished, raised,
                   start, prev, failedKeys>>

(* Line 113: get_readability, inside the executor block and the outer try *)
Readability ==
    /\ pc = "readability"
    /\ \/ /\ metrics' = metrics \cup {"readability"}
          /\ raised' = raised
       \/ /\ metrics' = metrics
          /\ raised' = "readability"
    /\ pc' = "join"
    /\ UNCHANGED <<features, cache, now, runs, email_content, idx, detected_lang,
                   fut, res, screen, export_data, sent, aiErrors, finished, start,
                   prev, failedKeys>>

(* Leaving the with-block of line 77: the executor waits for every future; *)
(* an exception raised inside then reaches the except of lines 169-170     *)
ExitPool ==
    /\ pc = "join"
    /\ \A k \in Dispatched : Done(fut[k])
    /\ IF raised = "none"
       THEN /\ pc' = "display"
            /\ idx' = 1
            /\ screen' = screen
       ELSE /\ pc' = "error"
            /\ idx' = idx
            /\ screen' = Append(screen, [sec |-> "error", body |-> <<>>])
    /\ UNCHANGED <<features, cache, now, runs, email_content, detected_lang, fut,
                   res, metrics, export_data, sent, aiErrors, finished, raised,
                   start, prev, failedKeys>>

(* Lines 116-158: one section per step, in the order of the script *)
Display ==
    /\ pc = "display"
    /\ LET s == Sections[idx]
           next == IF idx < Len(Sections) THEN "display" ELSE "export"
       IN
       \/ /\ s \in Kinds
          /\ screen' = Append(screen, [sec |-> s, body |-> res[s]])
          /\ pc' = next
          /\ idx' = idx + 1
          /\ UNCHANGED <<metrics, raised>>
       \/ /\ s = "readability"
          /\ screen' = Append(screen, [sec |-> s, body |-> <<>>])
          /\ pc' = next
          /\ idx' = idx + 1
          /\ UNCHANGED <<metrics, raised>>
       \/ /\ s = "sentiment"
          /\ metrics' = metrics \cup {"sentiment"}
          /\ screen' = Append(screen, [sec |-> s, body |-> <<>>])
          /\ pc' = next
          /\ idx' = idx + 1
          /\ UNCHANGED raised
       \/ /\ s = "sentiment"
          /\ raised' = "sentiment"
          /\ screen' = screen \o <<[sec |-> s, body |-> <<>>],
                                   [sec |-> "error", body |-> <<>>]>>
          /\ pc' = "error"
          /\ idx' = idx
          /\ UNCHANGED metrics
    /\ UNCHANGED <<features, cache, now, runs, email_content, detected_lang, fut,
                   res, export_data, sent, aiErrors, finished, start, prev,
                   failedKeys>>

(* Lines 161-167: the JSON export and its download button *)
Export ==
    /\ pc = "export"
    /\ export_data' = [k \in ExportKeys \cap Kinds |-> res[k]]
    /\ screen' = Append(screen, [sec |-> "download", body |-> <<>>])
    /\ pc' = "done"
    /\ UNCHANGED <<features, cache, now, runs, email_content, idx, detected_lang,
                   fut, res, metrics, sent, aiErrors, finished, raised, start,
                   prev, failedKeys>>

Next ==
    \/ Tick
    \/ Click
    \/ Detect
    \/ Submit
    \/ \E k \in Kinds : Lookup(k)
    \/ \E k \in Kinds : Respond(k)
    \/ \E k \in Kinds : Fail(k)
    \/ Extract
    \/ Readability
    \/ ExitPool
    \/ Display
    \/ Export

Spec == Init /\ [][Next]_vars

SpecFlags == InitFlags /\ [][Next]_vars

----------------------------------------------------------------------------
(* Vocabulary of the properties *)

Joined == DOMAIN res = Kinds

FailedKinds == {k \in Kinds : fut[k].src = "fail"}

Spaces(i) == [x \in 1..i |-> " "]

(* t is raw without its leading and trailing blanks, said without Strip *)
IsStripOf(t, raw) ==
    /\ \E i, j \in 0..Len(raw) : raw = Spaces(i) \o t \o Spaces(j)
    /\ t # <<>> => t[1] # " " /\ t[Len(t)] # " "

(* p is a prefix of s, said without Slice *)
PrefixOf(p, s) == Concat(p, Drop(s, StrLen(p))) = s

Min(a, b) == IF a <= b THEN a ELSE b

ExactKey(k) == <<Template(k), email_content>>

OnScreen(k) == \E i \in 1..Len(screen) : screen[i] = [sec |-> k, body |-> res[k]]

IsSection(e) == e.sec \in Kinds \cup {"sentiment", "readability"}

Shown == SelectSeq(screen, IsSection)

InsightShown == \E i \in 1..Len(screen) : screen[i].sec \in Kinds

SameInputsAsPrev == DOMAIN prev.res = Kinds /\ prev.doc = email_content

AuxCalls == {"readability", "sentiment"}

----------------------------------------------------------------------------
(* C1: whatever the feature flags, the kinds a run dispatches and the keys  *)
(* of its result are exactly the enabled kinds plus the mandatory summary;  *)
(* a disabled kind is never dispatched and never appears in the result.     *)
C1_KeySetIsEnabledKinds ==
    /\ Dispatched \subseteq EnabledKinds(features) \cup MandatoryKinds
    /\ DOMAIN res \subseteq EnabledKinds(features) \cup MandatoryKinds
    /\ Joined => DOMAIN res = EnabledKinds(features) \cup MandatoryKinds

(* C2: when exactly one kind's completion call fails in a run, that kind's  *)
(* result is the empty text and its error was reported; every sibling has   *)
(* no error and the (stripped) text of its own call, or its cached text;    *)
(* and the run is not aborted by that failure.                              *)
C2_FailureIsolated ==
    (Joined /\ Cardinality(FailedKinds) = 1) =>
        \A k \in FailedKinds :
            /\ res[k] = <<>>
            /\ k \in aiErrors
            /\ raised \in {"none"} \cup AuxCalls
            /\ \A j \in Kinds \ {k} :
                /\ j \notin aiErrors
                /\ fut[j].src \in {"ok", "hit"}
                /\ fut[j].src = "ok" => IsStripOf(res[j], fut[j].raw)
                /\ fut[j].src = "hit" =>
                       /\ ExactKey(j) \in DOMAIN cache
                       /\ res[j] = cache[ExactKey(j)].value

C2_Witness ==
    /\ pc = "done"
    /\ Cardinality(FailedKinds) = 1
    /\ \E j \in Kinds : fut[j].src = "ok" /\ res[j] # <<>> /\ OnScreen(j)

(* C3 as stated: a run that starts within one hour of the start of the      *)
(* previous run on the same document has the same text for every kind.      *)
C3_SameTextWithinWindowOfFirstRun ==
    (Joined /\ SameInputsAsPrev /\ start - prev.start < TTL) =>
        \A k \in Kinds : res[k] = prev.res[k]

(* C3 amended: in a run on the same document as the previous run, every     *)
(* kind whose cache entry is still fresh when the run looks it up has the   *)
(* text it had in the previous run.                                         *)
C3_SameTextWhileEntryFresh ==
    (Joined /\ SameInputsAsPrev) =>
        \A k \in Kinds : fut[k].src = "hit" => res[k] = prev.res[k]

C3_Witness ==
    /\ Joined
    /\ SameInputsAsPrev
    /\ \A k \in Kinds : fut[k].src = "hit"
    /\ \E k \in Kinds : res[k] # <<>>
    /\ start > prev.start

(* C4 as stated: the cache is keyed on the truncated content, so no         *)
(* completion call is in flight for a template while a fresh entry exists   *)
(* for the same template and a document with the same first                 *)
(* MAX_EMAIL_LENGTH characters.                                             *)
C4_KeyedOnTruncatedContent ==
    \A k \in Kinds :
        fut[k].st = "running" =>
            ~ \E key \in DOMAIN cache :
                /\ key[1] = Template(k)
                /\ Slice(key[2], MAX_EMAIL_LENGTH) = Slice(email_content, MAX_EMAIL_LENGTH)
                /\ now - cache[key].stamp < TTL

(* C4 amended: the cache is keyed on the template and the whole content: a  *)
(* call is answered from the cache only by the entry of exactly its own     *)
(* (template, content) pair, and a completion call is in flight only when   *)
(* that entry is missing or expired.                                        *)
C4_KeyedOnWholeContent ==
    \A k \in Kinds :
        /\ fut[k].st = "running" =>
               ~ (ExactKey(k) \in DOMAIN cache /\ now - cache[ExactKey(k)].stamp < TTL)
        /\ fut[k].src = "hit" =>
               /\ ExactKey(k) \in DOMAIN cache
               /\ fut[k].val = cache[ExactKey(k)].value
        /\ fut[k].src \in {"ok", "fail"} =>
               /\ ExactKey(k) \in DOMAIN cache
               /\ cache[ExactKey(k)].value = fut[k].val

C4_Witness ==
    \E k \in Kinds :
        /\ fut[k].src = "ok"
        /\ \E key \in DOMAIN cache :
            /\ key[1] = Template(k)
            /\ key[2] # email_content
            /\ Slice(key[2], MAX_EMAIL_LENGTH) = Slice(email_content, MAX_EMAIL_LENGTH)
            /\ now - cache[key].stamp < TTL
            /\ cache[key].stamp < cache[ExactKey(k)].stamp

(* C5: every prompt sent in a run embeds the first MAX_EMAIL_LENGTH         *)
(* characters of the document and nothing more, the same prefix for every   *)
(* kind; a document no longer than the bound is embedded unchanged.         *)
C5_TruncationConsistent ==
    \A p \in sent :
        /\ PrefixOf(p.body, email_content)
        /\ StrLen(p.body) = Min(StrLen(email_content), MAX_EMAIL_LENGTH)
        /\ StrLen(email_content) <= MAX_EMAIL_LENGTH => p.body = email_content
        /\ \A q \in sent : q.body = p.body
        /\ \E k \in Dispatched : p.template = Template(k)

C5_Witness ==
    /\ StrLen(email_content) > MAX_EMAIL_LENGTH
    /\ Cardinality(sent) = NumKinds
    /\ Joined

(* C6: a run with empty content shows the paste-your-email notice and       *)
(* dispatches nothing: no future, no completion call.                       *)
C6_EmptyRejected ==
    email_content = Empty =>
        /\ pc = "info"
        /\ Dispatched = {}
        /\ sent = {}
        /\ res = <<>>
        /\ screen = <<[sec |-> "info", body |-> <<>>]>>

C6_Witness == runs > 0 /\ email_content = Empty /\ cache # <<>>

(* C7: when the detected language is not English the run reports it and    *)
(* stops: no future, no completion call, no insight, no local metric.       *)
C7_UnsupportedLanguage ==
    detected_lang \notin {"-", "en"} =>
        /\ pc = "unsupported"
        /\ Dispatched = {}
        /\ sent = {}
        /\ res = <<>>
        /\ metrics = {}
        /\ export_data = <<>>
        /\ screen = <<[sec |-> "unsupported", body |-> <<>>]>>

C7_Witness == pc = "unsupported" /\ detected_lang = "fr" /\ email_content = LongA

(* C8: a run whose sentiment or readability scorer raises after dispatch    *)
(* is not aborted: once the run is over, every insight that has a section   *)
(* is on the page and the export is offered.                                *)
C8_AuxFailureIsolated ==
    (pc \in RestStates /\ raised \in AuxCalls) =>
        /\ \A k \in Kinds : OnScreen(k)
        /\ export_data # <<>>

(* C9: nothing is displayed or exported until every dispatched request has *)
(* produced its result, and the sections appear in the script's fixed       *)
(* order with the extracted texts, whatever the completion order.           *)
C9_JoinAll ==
    /\ (InsightShown \/ export_data # <<>>) =>
           \A k \in Kinds :
               /\ fut[k].st = "done"
               /\ k \in DOMAIN res
               /\ res[k] = fut[k].val
    /\ Len(Shown) <= Len(Sections)
    /\ \A i \in 1..Len(Shown) :
           /\ Shown[i].sec = Sections[i]
           /\ Shown[i].sec \in Kinds => Shown[i].body = res[Shown[i].sec]
    /\ export_data # <<>> => \A k \in DOMAIN export_data : export_data[k] = res[k]

C9_Witness ==
    /\ pc = "done"
    /\ finished # SubSeq(KindOrder, 1, NumKinds)
    /\ Len(finished) = NumKinds

(* C10: a failed completion call is memoized: its key holds the empty text, *)
(* a repeat call while the entry is fresh returns the empty text without a  *)
(* new completion call, and a call is in flight for such a key only once    *)
(* the entry has expired.                                                   *)
C10_FailureMemoized ==
    /\ \A key \in failedKeys : key \in DOMAIN cache /\ cache[key].value = <<>>
    /\ \A k \in Kinds :
        ExactKey(k) \in failedKeys =>
            /\ fut[k].src = "hit" =>
                   /\ fut[k].val = <<>>
                   /\ k \notin aiErrors
                   /\ \A p \in sent : p.template # Template(k)
            /\ fut[k].st = "running" => now - cache[ExactKey(k)].stamp >= TTL

C10_Witness ==
    \E k \in Kinds :
        /\ fut[k].src = "hit"
        /\ ExactKey(k) \in failedKeys
        /\ fut[k].val = <<>>
        /\ k \in DOMAIN res

====
